---- MODULE Spec2Model ----
(***************************************************************************)
(* Wialon connector: session-token cache, position fetch with its two      *)
(* nested retry policies, the per-device watermark filter and the three    *)
(* action handlers (auth, fetch_samples, pull_observations).               *)
(*                                                                         *)
(* The state store, the vendor API and the downstream ingestion service    *)
(* are the environment: the store is a pair of maps, and every vendor or   *)
(* downstream answer is an input chosen among the answers the code tells   *)
(* apart.                                                                  *)
(***************************************************************************)
EXTENDS Integers, Sequences, FiniteSets, TLC

\* ---------------------------------------------------------------- bounds
NumIntegrations == 2
NumDevices == 1
MaxTime == 2
MaxItems == 2
MaxToken == 2
MaxExtract == 2
TicksPerDay == 2

\* ------------------------------------------------------- program constants
SessionAttempts == 3
FetchAttempts == 3
InvalidSessionCode == 1
None == 0

Integrations == 1..NumIntegrations
Devices == 1..NumDevices
Timestamps == 1..MaxTime
Tokens == 1..MaxToken
\* error codes of a vendor envelope: 0, the invalid-session code, another code
ErrorCodes == {0, InvalidSessionCode, 5}

\* exception classes
HTTPError == "httpx.HTTPError"
WialonErrorException == "WialonErrorException"
WialonInvalidSessionException == "WialonInvalidSessionException"
ConfigurationNotFound == "ConfigurationNotFound"

\* ------------------------------------------------------------ JSON values
EmptyDict == [k \in {} |-> 0]
\* fault: the cached blob is never seen (every lookup misses)
TruthyNever(state) == FALSE
\* Python truthiness of a stored state blob (None or {} is falsy)
Truthy(state) == DOMAIN state # {}
\* dict.get(key, default)
JsonGet(json, key, default) == IF key \in DOMAIN json THEN json[key] ELSE default
\* the post failed or raise_for_status() raised
HttpFailure == [http_error |-> TRUE]
Failed(resp) == "http_error" \in DOMAIN resp

\* WialonDataResponse: id and optional pos (pos is the timestamp pos.t or None)
DeviceRecords == [id : Devices, pos : {None} \cup Timestamps]
ItemLists == UNION {[1..n -> DeviceRecords] : n \in 0..MaxItems}

LoginResponses ==
    {[eid |-> t] : t \in Tokens} \cup {[error |-> 4], EmptyDict, HttpFailure}
PositionResponses ==
    {[items |-> l] : l \in ItemLists} \cup {[error |-> c] : c \in ErrorCodes}
        \cup {EmptyDict, HttpFailure}

\* ------------------------------------------------- watermark serialisation
\* the stored watermark is the text of the datetime (date part, time part)
FormatTimestamp(t) == <<t \div TicksPerDay, t % TicksPerDay>>
\* datetime.strptime(text, '%Y-%m-%d %H:%M:%S%z')
ParseTimestamp(text) == text[1] * TicksPerDay + text[2]

\* -------------------------------------------------------------- variables
VARIABLES
    session,                  \* state store, action "get_authentication_token"
    watermark,                \* state store, action "pull_observations", per device
    op,                       \* the handler being executed
    integration,              \* its integration argument (the id)
    hasAuthConfig,            \* whether integration.configurations holds "auth"
    observations_to_extract,  \* FetchSamplesConfig.observations_to_extract
    pc,                       \* position in the handler
    outerAttempt,             \* attempt number of the fetch retry_context
    innerAttempt,             \* attempt number of the retry of get_positions_list
    sid,                      \* params["sid"] built for the next request
    vehicles,                 \* vehicles.items
    transformed_data,
    devices_without_position,
    total_observations,
    w,                        \* index of the vehicle whose state is written next
    result,                   \* the dict the handler returns
    raised,                   \* the exception the handler raised, or "none"
    \* history of the run, for the properties
    calls,                    \* the external calls made by the last step
    gplOutcome,               \* how the last get_positions_list call ended
    callClears,               \* session deletions of the running get_positions_list call
    callRequests,             \* position requests of the running get_positions_list call
    sessionClears,            \* session deletions of the fetch loop of this run
    reads,                    \* per fetched record: the watermark state read for it
    sent,                     \* the batches handed to send_observations_to_gundi
    wm0,                      \* the watermarks of the integration at handler start
    delivered,                \* per observation: the runs that delivered it (kept by SpecRecorded)
    fetchRequests,            \* position requests of the running fetch, all attempts
    fetchLogins               \* login calls of the running fetch, all attempts

storeVars == <<session, watermark>>
argVars == <<op, integration, hasAuthConfig, observations_to_extract>>
raiseVars == <<pc, outerAttempt, innerAttempt, result, raised, gplOutcome, callClears,
              callRequests>>
dataVars == <<sid, vehicles, transformed_data, devices_without_position,
              total_observations, w>>
histVars == <<calls, sessionClears, reads, sent, wm0, delivered, fetchRequests,
             fetchLogins>>
vars == <<storeVars, argVars, raiseVars, dataVars, histVars>>

Init ==
    /\ session = [i \in Integrations |-> EmptyDict]
    /\ watermark = [i \in Integrations |-> [d \in Devices |-> EmptyDict]]
    /\ op = "none"
    /\ integration = 1
    /\ hasAuthConfig = TRUE
    /\ observations_to_extract = 0
    /\ pc = "idle"
    /\ outerAttempt = 1
    /\ innerAttempt = 1
    /\ sid = None
    /\ vehicles = <<>>
    /\ transformed_data = <<>>
    /\ devices_without_position = <<>>
    /\ total_observations = 0
    /\ w = 1
    /\ result = EmptyDict
    /\ raised = "none"
    /\ calls = <<>>
    /\ gplOutcome = "none"
    /\ callClears = 0
    /\ callRequests = 0
    /\ sessionClears = 0
    /\ reads = <<>>
    /\ sent = <<>>
    /\ wm0 = watermark[1]
    /\ delivered = [o \in Devices \X Timestamps |-> 0]
    /\ fetchRequests = 0
    /\ fetchLogins = 0

\* the integrations the host runs handlers for
Scheduled == {1}

\* a handler starts: its locals and the history of the run are fresh
Begin(handler, i, cfg, n) ==
    /\ pc \in {"idle", "done"}
    /\ op' = handler
    /\ integration' = i
    /\ hasAuthConfig' = cfg
    /\ observations_to_extract' = n
    /\ outerAttempt' = 1
    /\ innerAttempt' = 1
    /\ sid' = None
    /\ vehicles' = <<>>
    /\ transformed_data' = <<>>
    /\ devices_without_position' = <<>>
    /\ total_observations' = 0
    /\ w' = 1
    /\ raised' = "none"
    /\ gplOutcome' = "none"
    /\ callClears' = 0
    /\ callRequests' = 0
    /\ sessionClears' = 0
    /\ reads' = <<>>
    /\ sent' = <<>>
    /\ wm0' = watermark[i]
    /\ fetchRequests' = 0
    /\ fetchLogins' = 0
    /\ UNCHANGED delivered

\* result[key] = val
SetKey(dict, key, val) ==
    [k \in DOMAIN dict \cup {key} |-> IF k = key THEN val ELSE dict[k]]

\* ---------------------------------------------------------- Session Manager
\* get_authentication_token: what the login answer makes of the token cache
GetAuthenticationTokenIgnoresError(resp) ==
    IF Failed(resp) THEN [exc |-> HTTPError]
    ELSE [exc |-> "none",
          state |-> [eid |-> JsonGet(resp, "eid", None)],
          eid |-> JsonGet(resp, "eid", None)]
GetAuthenticationToken(resp) ==
    IF Failed(resp) THEN [exc |-> HTTPError]
    ELSE IF "error" \in DOMAIN resp THEN [exc |-> WialonErrorException]
    ELSE [exc |-> "none",
          state |-> [eid |-> JsonGet(resp, "eid", None)],
          eid |-> JsonGet(resp, "eid", None)]

\* -------------------------------------------------------- retry and except
\* fault: every error code is read as an invalid session
ErrorExceptionAlwaysSession(code) == WialonInvalidSessionException
\* the exception a vendor envelope with an error code raises
ErrorException(code) ==
    IF code = InvalidSessionCode THEN WialonInvalidSessionException
    ELSE WialonErrorException

\* fault: one attempt too many
RetriesSessionOffByOne(e) ==
    e = WialonInvalidSessionException /\ innerAttempt <= SessionAttempts
\* @stamina.retry(on=WialonInvalidSessionException, attempts=3)
RetriesSession(e) ==
    e = WialonInvalidSessionException /\ innerAttempt < SessionAttempts

\* fault: one attempt too many
RetriesFetchOffByOne(e) ==
    op = "pull_observations" /\ e = HTTPError /\ outerAttempt <= FetchAttempts
\* fault: the transport retry wraps the fetch of every handler
RetriesFetchAnyHandler(e) ==
    e = HTTPError /\ outerAttempt < FetchAttempts
\* stamina.retry_context(on=httpx.HTTPError, attempts=3) around the fetch
RetriesFetch(e) ==
    op = "pull_observations" /\ e = HTTPError /\ outerAttempt < FetchAttempts

\* the except clauses of action_pull_observations
PullCatches(e) ==
    e \in {WialonErrorException, WialonInvalidSessionException, HTTPError}
PullErrorResult(e) ==
    LET message == IF e = HTTPError
                   THEN "pull_observations action returned error."
                   ELSE "Wialon API returned error"
    IN SetKey(SetKey(result, "details", message), "error", e)

\* exception e leaves the body of get_positions_list; cc and rq are the
\* numbers of session deletions and of position requests of the call so far
Raise(e, cc, rq) ==
    IF RetriesSession(e)
    THEN /\ innerAttempt' = innerAttempt + 1
         /\ pc' = "build_request_params"
         /\ callClears' = cc
         /\ callRequests' = rq
         /\ UNCHANGED <<outerAttempt, result, raised, gplOutcome>>
    ELSE IF RetriesFetch(e)
    THEN /\ outerAttempt' = outerAttempt + 1
         /\ innerAttempt' = 1
         /\ pc' = "build_request_params"
         /\ callClears' = 0
         /\ callRequests' = 0
         /\ UNCHANGED <<result, raised, gplOutcome>>
    ELSE /\ pc' = "done"
         /\ gplOutcome' = e
         /\ callClears' = cc
         /\ callRequests' = rq
         /\ UNCHANGED <<outerAttempt, innerAttempt>>
         /\ IF op = "pull_observations" /\ PullCatches(e)
            THEN result' = PullErrorResult(e) /\ raised' = "none"
            ELSE result' = result /\ raised' = e

\* ------------------------------------------------------------ the handlers
\* fault: any login that does not raise counts as valid credentials
ValidCredentialsAlways(eid) == TRUE
\* eid is not None
ValidCredentials(eid) == eid # None

\* action_auth: one login call, converted into a result
Auth(scheduled) ==
    \E i \in scheduled, resp \in LoginResponses :
        LET r == GetAuthenticationToken(resp) IN
        /\ Begin("auth", i, TRUE, 0)
        /\ pc' = "done"
        /\ calls' = <<[svc |-> "token/login", resp |-> resp]>>
        /\ session' = IF r.exc = "none"
                      THEN [session EXCEPT ![i] = r.state] ELSE session
        /\ result' = IF r.exc = "none"
                     THEN [valid_credentials |-> ValidCredentials(r.eid)]
                     ELSE [valid_credentials |-> FALSE, error |-> r.exc]
        /\ UNCHANGED watermark

ActionAuth == Auth(Scheduled)

FetchSamples(scheduled) ==
    \E i \in scheduled, cfg \in BOOLEAN, n \in -1..MaxExtract :
        /\ Begin("fetch_samples", i, cfg, n)
        /\ pc' = "build_request_params"
        /\ result' = EmptyDict
        /\ calls' = <<>>
        /\ UNCHANGED storeVars

ActionFetchSamples == FetchSamples(Scheduled)

PullObservations(scheduled) ==
    \E i \in scheduled, cfg \in BOOLEAN :
        /\ Begin("pull_observations", i, cfg, 0)
        /\ pc' = "build_request_params"
        /\ result' = [observations_extracted |-> 0, details |-> "{}"]
        /\ calls' = <<>>
        /\ UNCHANGED storeVars

ActionPullObservations == PullObservations(Scheduled)

\* ---------------------------------------------------------- Position Fetcher
\* build_request_params: the cached token, else get_auth_config and a login
BuildRequestParams ==
    /\ pc = "build_request_params"
    /\ LET saved_token == session[integration] IN
       IF Truthy(saved_token)
       THEN /\ sid' = saved_token.eid
            /\ pc' = "post_search_items"
            /\ calls' = <<>>
            /\ fetchLogins' = fetchLogins
            /\ UNCHANGED <<session, outerAttempt, innerAttempt, result, raised,
                           gplOutcome, callClears, callRequests>>
       ELSE IF ~hasAuthConfig
       THEN /\ calls' = <<>>
            /\ fetchLogins' = fetchLogins
            /\ Raise(ConfigurationNotFound, callClears, callRequests)
            /\ UNCHANGED <<session, sid>>
       ELSE \E resp \in LoginResponses :
            LET r == GetAuthenticationToken(resp) IN
            /\ calls' = <<[svc |-> "token/login", resp |-> resp]>>
            /\ fetchLogins' = fetchLogins + 1
            /\ IF r.exc = "none"
               THEN /\ session' = [session EXCEPT ![integration] = r.state]
                    /\ sid' = r.eid
                    /\ pc' = "post_search_items"
                    /\ UNCHANGED <<outerAttempt, innerAttempt, result, raised,
                                   gplOutcome, callClears, callRequests>>
               ELSE /\ Raise(r.exc, callClears, callRequests)
                    /\ UNCHANGED <<session, sid>>
    /\ UNCHANGED <<watermark, argVars, vehicles, transformed_data,
                   devices_without_position, total_observations, w,
                   sessionClears, reads, sent, wm0, delivered, fetchRequests>>

\* fault: the limit is not applied
PySliceIgnoresLimit(s, n) == s
\* observations[:n]
PySlice(s, n) ==
    LET len == IF n >= 0 THEN (IF n < Len(s) THEN n ELSE Len(s))
               ELSE (IF Len(s) + n > 0 THEN Len(s) + n ELSE 0)
    IN SubSeq(s, 1, len)

\* json.loads(vehicle.json())
VehicleJson(vehicle) ==
    [id |-> vehicle.id,
     pos |-> IF vehicle.pos = None THEN EmptyDict
             ELSE [t |-> FormatTimestamp(vehicle.pos)]]

\* fault: the deletion is not keyed by the integration
DeleteStateAll(store, i) == [k \in DOMAIN store |-> EmptyDict]
\* fault: the rejected token stays in the cache
DeleteStateNothing(store, i) == store
\* state_manager.delete_state(str(integration.id), "get_authentication_token")
DeleteState(store, i) == [store EXCEPT ![i] = EmptyDict]

\* the request of get_positions_list and the reading of its answer
PostSearchItems ==
    /\ pc = "post_search_items"
    /\ \E resp \in PositionResponses :
        /\ calls' = <<[svc |-> "core/search_items", sid |-> sid, resp |-> resp]>>
        /\ IF Failed(resp)
           THEN /\ Raise(HTTPError, callClears, callRequests + 1)
                /\ fetchRequests' = fetchRequests + 1
                /\ UNCHANGED <<session, sessionClears, vehicles, fetchLogins>>
           ELSE IF "error" \in DOMAIN resp
           THEN IF ErrorException(resp.error) = WialonInvalidSessionException
                THEN /\ session' = DeleteState(session, integration)
                     /\ sessionClears' = sessionClears + 1
                     /\ Raise(WialonInvalidSessionException, callClears + 1,
                              callRequests + 1)
                     /\ fetchRequests' = fetchRequests + 1
                     /\ UNCHANGED <<vehicles, fetchLogins>>
                ELSE /\ Raise(WialonErrorException, callClears, callRequests + 1)
                     /\ fetchRequests' = fetchRequests + 1
                     /\ UNCHANGED <<session, sessionClears, vehicles, fetchLogins>>
           ELSE \* the call returns: both retry loops are over
                /\ vehicles' = JsonGet(resp, "items", <<>>)
                /\ gplOutcome' = "returned"
                /\ outerAttempt' = 1
                /\ innerAttempt' = 1
                /\ callClears' = 0
                /\ callRequests' = 0
                /\ sessionClears' = 0
                /\ fetchRequests' = 0
                /\ fetchLogins' = 0
                /\ UNCHANGED <<session, raised>>
                /\ IF op = "fetch_samples"
                   THEN LET observations ==
                                PySlice([k \in DOMAIN vehicles' |->
                                            VehicleJson(vehicles'[k])],
                                        observations_to_extract)
                        IN /\ result' = [observations_extracted |-> Len(observations),
                                         observations |-> observations]
                           /\ pc' = "done"
                   ELSE /\ result' = result
                        /\ pc' = "filter_and_transform"
    /\ UNCHANGED <<watermark, argVars, sid, transformed_data,
                   devices_without_position, total_observations, w,
                   reads, sent, wm0, delivered>>

\* ------------------------------------- Observation Transformer and Filter
\* fault: the missing position is not checked
HasPositionAlways(device) == TRUE
\* device.pos is None
HasPosition(device) == device.pos # None

\* fault: the comparison with the watermark is strict
NotNewerStrict(t, latest_device_timestamp) == t < latest_device_timestamp
\* device.pos.t <= latest_device_timestamp
NotNewer(t, latest_device_timestamp) == t <= latest_device_timestamp

\* transform(device): the canonical observation
Transform(device) == [source |-> device.id, recorded_at |-> device.pos]

NotRead == [read |-> FALSE, state |-> EmptyDict]
Read(current_state) == [read |-> TRUE, state |-> current_state]

\* filter_and_transform over the state store of one integration; reads is
\* the list, parallel to devices, of the get_state calls it makes
RECURSIVE FilterAndTransform(_, _)
FilterAndTransform(devices, store) ==
    IF devices = <<>>
    THEN [transformed_data |-> <<>>, devices_without_position |-> <<>>,
          reads |-> <<>>]
    ELSE LET device == Head(devices)
             rest == FilterAndTransform(Tail(devices), store)
         IN IF ~HasPosition(device)
            THEN [rest EXCEPT
                    !.devices_without_position = <<[device_id |-> device.id]>> \o @,
                    !.reads = <<NotRead>> \o @]
            ELSE LET current_state == store[device.id] IN
                 IF /\ Truthy(current_state)
                    /\ NotNewer(device.pos,
                           ParseTimestamp(current_state.latest_device_timestamp))
                 THEN [rest EXCEPT !.reads = <<Read(current_state)>> \o @]
                 ELSE [rest EXCEPT
                         !.transformed_data = <<Transform(device)>> \o @,
                         !.reads = <<Read(current_state)>> \o @]

\* fault: the batch is sent whether or not it is empty
HasDataAlways(data) == TRUE
\* if transformed_data:
HasData(data) == data # <<>>

\* action_pull_observations from the return of the fetch to the delivery
FilterAndTransformStep ==
    /\ pc = "filter_and_transform"
    /\ LET out == FilterAndTransform(vehicles, watermark[integration]) IN
        /\ transformed_data' = out.transformed_data
        /\ devices_without_position' = out.devices_without_position
        /\ reads' = out.reads
        /\ calls' = IF out.devices_without_position # <<>>
                    THEN <<[svc |-> "log_action_activity",
                            resp |-> EmptyDict]>>
                    ELSE <<>>
        /\ total_observations' = 0
        /\ IF HasData(out.transformed_data)
           THEN /\ pc' = "send_observations"
                /\ result' = result
           ELSE /\ pc' = "done"
                /\ result' = SetKey(result, "details", "No transformed data to send.")
    /\ UNCHANGED <<storeVars, argVars, outerAttempt, innerAttempt, raised,
                   gplOutcome, callClears, callRequests, sid, vehicles, w,
                   sessionClears, sent, wm0, delivered, fetchRequests, fetchLogins>>

\* fault: the watermarks are written whatever the delivery call did
DeliveryConfirmedAlways(outcome) == TRUE
\* the try/else around send_observations_to_gundi: the else branch runs
\* when the call returned
DeliveryConfirmed(outcome) == outcome = "ok"

\* the observations of a batch, as (device, timestamp) pairs
Pairs(batch) == {<<batch[j].source, batch[j].recorded_at>> : j \in DOMAIN batch}

\* one pass of the delivery retry_context; with record, the history of the
\* delivered observations is kept (a run counts once, and counting stops at 2)
Send(record) ==
    /\ pc = "send_observations"
    /\ \E outcome \in {"ok", HTTPError} :
        /\ sent' = Append(sent, [observations |-> transformed_data,
                                 outcome |-> outcome])
        /\ calls' = <<[svc |-> "send_observations_to_gundi",
                       resp |-> [outcome |-> outcome]]>>
        /\ delivered' = IF record /\ outcome = "ok"
                        THEN [o \in DOMAIN delivered |->
                                IF o \in Pairs(transformed_data) /\ delivered[o] < 2
                                THEN delivered[o] + 1 ELSE delivered[o]]
                        ELSE delivered
        /\ IF DeliveryConfirmed(outcome)
           THEN /\ total_observations' = total_observations + Len(transformed_data)
                /\ w' = 1
                /\ pc' = "set_state"
                /\ result' = result
           ELSE \* except httpx.HTTPError inside the attempt: return result
                /\ result' = SetKey(result, "message", "Sensors API returned error")
                /\ pc' = "done"
                /\ UNCHANGED <<total_observations, w>>
    /\ UNCHANGED <<storeVars, argVars, outerAttempt, innerAttempt, raised,
                   gplOutcome, callClears, callRequests, sid, vehicles,
                   transformed_data, devices_without_position, sessionClears,
                   reads, wm0, fetchRequests, fetchLogins>>

SendObservations == Send(FALSE)
SendObservationsRecorded == Send(TRUE)

\* one turn of the loop over transformed_data that writes the watermarks
SetState ==
    /\ pc = "set_state"
    /\ LET vehicle == transformed_data[w]
           state == [latest_device_timestamp |-> FormatTimestamp(vehicle.recorded_at)]
       IN watermark' = [watermark EXCEPT ![integration][vehicle.source] = state]
    /\ calls' = <<>>
    /\ IF w < Len(transformed_data)
       THEN /\ w' = w + 1
            /\ UNCHANGED <<pc, result>>
       ELSE /\ w' = w
            /\ pc' = "done"
            /\ result' = SetKey(SetKey(result, "observations_extracted",
                                       total_observations),
                                "details", "gundi response")
    /\ UNCHANGED <<session, argVars, outerAttempt, innerAttempt, raised,
                   gplOutcome, callClears, callRequests, sid, vehicles,
                   transformed_data, devices_without_position, total_observations,
                   sessionClears, reads, sent, wm0, delivered, fetchRequests,
                   fetchLogins>>

Next ==
    \/ ActionAuth
    \/ ActionFetchSamples
    \/ ActionPullObservations
    \/ BuildRequestParams
    \/ PostSearchItems
    \/ FilterAndTransformStep
    \/ SendObservations
    \/ SetState

Spec == Init /\ [][Next]_vars

\* the same program, with the history of the delivered observations kept
NextRecorded ==
    \/ ActionAuth
    \/ ActionFetchSamples
    \/ ActionPullObservations
    \/ BuildRequestParams
    \/ PostSearchItems
    \/ FilterAndTransformStep
    \/ SendObservationsRecorded
    \/ SetState

SpecRecorded == Init /\ [][NextRecorded]_vars

\* ------------------------------------------------- interleaved integrations
\* between two steps of the run in hand, a run of another integration j
\* takes a step that writes the stores: the set_state of its login, the
\* delete_state of its rejected token, or one of its watermark writes
OtherRunStep(j) ==
    /\ j # integration
    /\ \/ /\ \E resp \in LoginResponses :
                LET r == GetAuthenticationToken(resp) IN
                /\ r.exc = "none"
                /\ session' = [session EXCEPT ![j] = r.state]
          /\ UNCHANGED watermark
       \/ /\ session' = DeleteState(session, j)
          /\ UNCHANGED watermark
       \/ /\ \E d \in Devices, t \in Timestamps :
                watermark' = [watermark EXCEPT ![j][d] =
                    [latest_device_timestamp |-> FormatTimestamp(t)]]
          /\ UNCHANGED session
    /\ UNCHANGED <<argVars, raiseVars, dataVars, histVars>>

OtherRun == \E j \in Integrations : OtherRunStep(j)

\* the handlers, run for any integration
Handlers ==
    \/ Auth(Integrations)
    \/ FetchSamples(Integrations)
    \/ PullObservations(Integrations)
    \/ BuildRequestParams
    \/ PostSearchItems
    \/ FilterAndTransformStep
    \/ SendObservations
    \/ SetState

NextInterleaved ==
    \/ Handlers
    \/ OtherRun

SpecInterleaved == Init /\ [][NextInterleaved]_vars

\* ================================================================ properties
InPull == op = "pull_observations"
\* the token cache of the running integration holds a blob
Cached == DOMAIN session[integration] # {}
\* the last step made the position request and the vendor answered with an
\* error envelope
AnsweredError ==
    /\ calls # <<>>
    /\ calls[1].svc = "core/search_items"
    /\ "error" \in DOMAIN calls[1].resp
\* the last step made a login call
LoggedIn == calls # <<>> /\ calls[1].svc = "token/login"
\* observation o stems from the fetched record k
StemsFrom(o, k) ==
    vehicles[k].id = o.source /\ vehicles[k].pos = o.recorded_at
\* the filter read a watermark for record k and the record is not newer
Stale(k) ==
    /\ reads[k].read
    /\ DOMAIN reads[k].state # {}
    /\ vehicles[k].pos <= ParseTimestamp(reads[k].state.latest_device_timestamp)

\* C1: every observation handed to the delivery call stems from a record
\* whose device had no stored watermark, or whose timestamp is strictly
\* greater than the watermark the filter read; no record at or below the
\* watermark it was compared with is in a delivered batch.
C1_ForwardOnlyNewer ==
    (InPull /\ sent # <<>>) =>
        /\ Len(reads) = Len(vehicles)
        /\ \A k \in DOMAIN vehicles :
              reads[k].read => reads[k].state = wm0[vehicles[k].id]
        /\ \A n \in DOMAIN sent : \A j \in DOMAIN sent[n].observations :
              \E k \in DOMAIN vehicles :
                  /\ StemsFrom(sent[n].observations[j], k)
                  /\ reads[k].read
                  /\ ~Stale(k)
        /\ \A k \in DOMAIN vehicles :
              Stale(k) =>
                  \A n \in DOMAIN sent : \A j \in DOMAIN sent[n].observations :
                      ~StemsFrom(sent[n].observations[j], k)

\* a batch was delivered from a list with one stale and one newer record
C1_Witness ==
    /\ InPull /\ sent # <<>>
    /\ \E k \in DOMAIN vehicles : Stale(k)
    /\ \E k \in DOMAIN vehicles :
          /\ reads[k].read /\ DOMAIN reads[k].state # {}
          /\ vehicles[k].pos > ParseTimestamp(reads[k].state.latest_device_timestamp)

\* C2: a watermark differs from its value at the start of the run only
\* once the delivery call of the batch has returned successfully, and only
\* for a device of that batch; after a failed delivery every watermark is
\* as it was before the run.
C2_WatermarkAfterDelivery ==
    InPull =>
        /\ (\A n \in DOMAIN sent : sent[n].outcome # "ok")
              => watermark[integration] = wm0
        /\ \A d \in Devices :
              watermark[integration][d] # wm0[d] =>
                  \E n \in DOMAIN sent : \E j \in DOMAIN sent[n].observations :
                      /\ sent[n].outcome = "ok"
                      /\ sent[n].observations[j].source = d
                      /\ watermark[integration][d].latest_device_timestamp
                            = FormatTimestamp(sent[n].observations[j].recorded_at)

\* a run ended by a failed delivery, the stored watermark untouched
C2_Witness ==
    /\ InPull /\ pc = "done"
    /\ sent # <<>> /\ sent[1].outcome = HTTPError
    /\ \E d \in Devices : DOMAIN wm0[d] # {}
    /\ watermark[integration] = wm0

\* C3: an answer with error code 1 deletes the cached token; the fetch is
\* then attempted again, at most 3 attempts in all, each retry logging in
\* afresh and sending the new token; the third such answer ends the call
\* with the session-invalid exception.
C3_InvalidSessionRetry ==
    /\ innerAttempt <= 3
    /\ callClears <= 3
    /\ (AnsweredError /\ calls[1].resp.error = 1) =>
          /\ ~Cached
          /\ IF callClears < 3
             THEN /\ pc = "build_request_params"
                  /\ innerAttempt = callClears + 1
                  /\ gplOutcome = "none"
             ELSE /\ pc = "done"
                  /\ gplOutcome = WialonInvalidSessionException
    /\ (pc = "post_search_items" /\ innerAttempt > 1) =>
          /\ LoggedIn
          /\ "eid" \in DOMAIN calls[1].resp => sid = calls[1].resp.eid
          /\ Cached /\ session[integration].eid = sid
    /\ gplOutcome = WialonInvalidSessionException =>
          /\ callClears = 3
          /\ innerAttempt = 3
          /\ IF InPull THEN result.error = WialonInvalidSessionException
                       ELSE raised = WialonInvalidSessionException

\* the third attempt of one call was answered with error code 1
C3_Witness ==
    /\ AnsweredError /\ calls[1].resp.error = 1
    /\ callClears = 3
    /\ gplOutcome = WialonInvalidSessionException

\* C4: an answer with an error code other than 1 ends the fetch with a
\* vendor error after that one request: nothing is retried and the token
\* that was sent is still the cached one.
C4_VendorErrorNoRetry ==
    (AnsweredError /\ calls[1].resp.error # 1) =>
        /\ pc = "done"
        /\ gplOutcome = WialonErrorException
        /\ Cached
        /\ session[integration].eid = calls[1].sid
        /\ IF InPull THEN result.error = WialonErrorException /\ raised = "none"
                     ELSE raised = WialonErrorException

\* error code 5 answered the first request of a pull run
C4_Witness ==
    /\ InPull /\ AnsweredError /\ calls[1].resp.error = 5
    /\ outerAttempt = 1 /\ innerAttempt = 1
    /\ pc = "done"

\* C5: a delivery call that fails with a transport error is retried: a run
\* that returns its delivery-failure result has attempted the delivery call
\* 3 times.
C5_DeliveryRetried ==
    (InPull /\ pc = "done" /\ "message" \in DOMAIN result) =>
        /\ Len(sent) = 3
        /\ \A n \in DOMAIN sent : sent[n].outcome = HTTPError

\* C6: action_pull_observations never raises: every run ends by returning
\* its result dict.
C6_PullNeverRaises ==
    (InPull /\ pc = "done") =>
        /\ raised = "none"
        /\ {"observations_extracted", "details"} \subseteq DOMAIN result

\* the filter has run in this pull
AfterFilter ==
    InPull /\ gplOutcome = "returned" /\ pc # "filter_and_transform"

C8_FetchTransportRetry ==
    InPull =>
        /\ outerAttempt <= 3
        /\ (pc = "done" /\ gplOutcome = HTTPError) =>
              /\ outerAttempt = 3
              /\ raised = "none"
              /\ result.details = "pull_observations action returned error."
              /\ "error" \in DOMAIN result
              /\ result.observations_extracted = 0
              /\ sent = <<>>
              /\ watermark[integration] = wm0

\* three fetch attempts, the third ended by a transport error
C8_Witness ==
    /\ InPull /\ pc = "done" /\ gplOutcome = HTTPError
    /\ outerAttempt = 3
    /\ "error" \in DOMAIN result

\* C9 as stated: a pull run deletes the cached session at most 3 times.
C9_AtMostThreeClearsPerRun ==
    InPull => sessionClears <= 3

\* C9, amended: one get_positions_list call deletes the cached session at
\* most 3 times; each transport-failure retry of the run starts a new call
\* with 3 session attempts of its own, so a run deletes it at most 7 times.
C9_ClearsPerCallAndRun ==
    /\ callClears <= 3
    /\ InPull => /\ sessionClears <= 7
                 /\ sessionClears <= 2 * (outerAttempt - 1) + callClears

\* the third fetch attempt of a run deleted the session for the seventh time
C9_Witness ==
    /\ InPull /\ outerAttempt = 3 /\ callClears = 3
    /\ sessionClears = 7

\* the login calls among the calls of a step
LoginCalls(cs) == Cardinality({n \in DOMAIN cs : cs[n].svc = "token/login"})

\* C10 as stated: with a cached token build_request_params makes no login
\* call and the sid is the cached token; with no cached token it makes
\* exactly one login call, whose eid is the sid.
C10_CachedOrOneLogin ==
    [][pc = "build_request_params" =>
        IF Cached
        THEN /\ LoginCalls(calls') = 0
             /\ pc' = "post_search_items"
             /\ sid' = session[integration].eid
        ELSE /\ LoginCalls(calls') = 1
             /\ pc' = "post_search_items" =>
                    sid' = JsonGet(calls'[1].resp, "eid", None)]_vars

\* C10, amended: as stated when the integration has an auth configuration;
\* without a cached token and without an auth configuration no login call
\* is made and ConfigurationNotFound is raised.
C10_CachedOrConfiguredLogin ==
    [][pc = "build_request_params" =>
        IF Cached
        THEN /\ LoginCalls(calls') = 0
             /\ pc' = "post_search_items"
             /\ sid' = session[integration].eid
        ELSE IF hasAuthConfig
        THEN /\ LoginCalls(calls') = 1
             /\ pc' = "post_search_items" =>
                    sid' = JsonGet(calls'[1].resp, "eid", None)
        ELSE /\ LoginCalls(calls') = 0
             /\ pc' = "done"
             /\ raised' = ConfigurationNotFound]_vars

\* build_request_params returned the eid of the login it made
C10_Witness ==
    /\ pc = "post_search_items"
    /\ LoggedIn
    /\ "eid" \in DOMAIN calls[1].resp
    /\ sid = calls[1].resp.eid


\* ------------------------------------------------- action_auth, fetch_samples
InAuth == op = "auth"
InFetchSamples == op = "fetch_samples"
\* the last step made the position request
Requested == calls # <<>> /\ calls[1].svc = "core/search_items"

\* C11: action_auth never raises on a failed login; a transport failure and
\* a vendor error payload both give valid_credentials false with an error
\* field, and valid_credentials is true exactly when the login answer
\* carried a token that is not null.
C11_AuthNeverRaises ==
    (InAuth /\ pc = "done") =>
        LET resp == calls[1].resp IN
        /\ raised = "none"
        /\ calls[1].svc = "token/login"
        /\ "http_error" \in DOMAIN resp =>
              result = [valid_credentials |-> FALSE, error |-> HTTPError]
        /\ ("http_error" \notin DOMAIN resp /\ "error" \in DOMAIN resp) =>
              result = [valid_credentials |-> FALSE,
                        error |-> WialonErrorException]
        /\ result.valid_credentials
              <=> /\ DOMAIN resp = {"eid"}
                  /\ resp.eid # None

\* a login answered with a vendor error payload, reported as invalid
C11_Witness ==
    /\ InAuth /\ pc = "done"
    /\ "error" \in DOMAIN calls[1].resp
    /\ result.valid_credentials = FALSE
    /\ "error" \in DOMAIN result

\* C12 as stated: one fetch_samples invocation issues at most one position
\* request, and whatever failure answers it is raised with nothing retried.
C12_FetchSamplesOneRequest ==
    InFetchSamples =>
        /\ callRequests <= 1
        /\ (Requested /\ DOMAIN calls[1].resp # {"items"}
                      /\ DOMAIN calls[1].resp # {})
              => pc = "done" /\ raised # "none"

\* C12, amended: fetch_samples calls get_positions_list once; a transport
\* failure or a vendor error other than code 1 is raised after that one
\* request, while an invalid session is retried inside the call, which
\* issues at most 3 position requests and then raises; no failure is
\* converted into a result.
C12_FetchSamplesOneCall ==
    InFetchSamples =>
        /\ outerAttempt = 1
        /\ callRequests <= 3
        /\ pc = "post_search_items" => callRequests <= 2
        /\ (Requested /\ "http_error" \in DOMAIN calls[1].resp) =>
              /\ pc = "done" /\ raised = HTTPError
              /\ callRequests = callClears + 1
        /\ (AnsweredError /\ calls[1].resp.error # 1) =>
              /\ pc = "done" /\ raised = WialonErrorException
              /\ callRequests = callClears + 1
        /\ (AnsweredError /\ calls[1].resp.error = 1) =>
              /\ callRequests = callClears
              /\ IF callRequests < 3
                 THEN pc = "build_request_params" /\ raised = "none"
                 ELSE pc = "done" /\ raised = WialonInvalidSessionException
        /\ raised # "none" => pc = "done" /\ result = EmptyDict

\* the third position request of one invocation was answered with code 1
C12_Witness ==
    /\ InFetchSamples /\ AnsweredError /\ calls[1].resp.error = 1
    /\ callRequests = 3
    /\ raised = WialonInvalidSessionException

\* the first k fetched devices, as fetch_samples renders them
FirstDevices(k) == [j \in 1..k |-> VehicleJson(vehicles[j])]
\* a fetch_samples invocation that returned its result
Sampled == InFetchSamples /\ pc = "done" /\ raised = "none"

\* C13 as stated: for every list of length m and every configured n the
\* result holds the first min(n, m) devices in vendor order, exactly n of
\* them when m >= n, and observations_extracted is the length returned.
C13_FirstMinDevices ==
    Sampled =>
        LET n == observations_to_extract
            m == Len(vehicles)
        IN /\ result.observations = FirstDevices(IF n < m THEN n ELSE m)
           /\ m >= n => Len(result.observations) = n
           /\ result.observations_extracted = Len(result.observations)

\* C13, amended: the same for every n >= 0; for a negative n the slice
\* drops the last -n devices, so the first max(m + n, 0) are returned.
C13_FirstDevicesBySlice ==
    Sampled =>
        LET n == observations_to_extract
            m == Len(vehicles)
        IN /\ n >= 0 =>
                 /\ result.observations = FirstDevices(IF n < m THEN n ELSE m)
                 /\ m >= n => Len(result.observations) = n
           /\ n < 0 =>
                 result.observations = FirstDevices(IF m + n > 0 THEN m + n ELSE 0)
           /\ result.observations_extracted = Len(result.observations)

\* two devices fetched, one asked for, the first one returned
C13_Witness ==
    /\ Sampled
    /\ Len(vehicles) = 2 /\ observations_to_extract = 1
    /\ result.observations = <<VehicleJson(vehicles[1])>>

\* C14: when the filter leaves nothing to send, the run makes no delivery
\* call, writes no watermark and returns observations_extracted 0 with the
\* details text 'No transformed data to send.'.
C14_EmptyBatchNoDelivery ==
    (AfterFilter /\ transformed_data = <<>>) =>
        /\ pc = "done"
        /\ sent = <<>>
        /\ watermark = [watermark EXCEPT ![integration] = wm0]
        /\ raised = "none"
        /\ result = [observations_extracted |-> 0,
                     details |-> "No transformed data to send."]

\* every fetched record was at or below its watermark
C14_Witness ==
    /\ AfterFilter /\ transformed_data = <<>>
    /\ vehicles # <<>>
    /\ \A k \in DOMAIN vehicles : Stale(k)
    /\ pc = "done"

\* -------------------------------------------------------------- the stores
\* the token of a login answer, None when the answer has none
Issued(resp) == IF "eid" \in DOMAIN resp THEN resp.eid ELSE None
\* a login answer that get_authentication_token rejects
LoginFailure(resp) == DOMAIN resp \cap {"http_error", "error"} # {}

\* C15: over every sequence of handler invocations the session cache of an
\* integration gets a value only in a step whose login call succeeded, and
\* loses it only in a step whose position request was answered with error
\* code 1; so once deleted it stays absent until a login succeeds.
C15_SessionLifecycle ==
    [][\A i \in Integrations :
          session'[i] # session[i] =>
              /\ i = integration'
              /\ calls' # <<>>
              /\ IF DOMAIN session'[i] # {}
                 THEN /\ calls'[1].svc = "token/login"
                      /\ ~LoginFailure(calls'[1].resp)
                      /\ session'[i] = [eid |-> Issued(calls'[1].resp)]
                 ELSE /\ calls'[1].svc = "core/search_items"
                      /\ "error" \in DOMAIN calls'[1].resp
                      /\ calls'[1].resp.error = 1]_vars

\* the cache was deleted, filled by a login and deleted again in one call
C15_Witness ==
    /\ AnsweredError /\ calls[1].resp.error = 1
    /\ ~Cached
    /\ callClears = 2 /\ pc = "build_request_params"

\* C16: a login that fails, by a transport error or by a vendor error
\* payload, leaves the session cache as it was, and its exception reaches
\* the caller: action_auth reports it, build_request_params raises it out
\* of the fetch attempt.
C16_FailedLoginCachesNothing ==
    [][(/\ calls' # <<>>
        /\ calls'[1].svc = "token/login"
        /\ LoginFailure(calls'[1].resp)) =>
          LET e == IF "http_error" \in DOMAIN calls'[1].resp
                   THEN HTTPError ELSE WialonErrorException
          IN /\ session' = session
             /\ IF op' = "auth"
                THEN result' = [valid_credentials |-> FALSE, error |-> e]
                ELSE /\ sid' = sid
                     /\ \/ pc' = "done" /\ gplOutcome' = e
                        \/ /\ op' = "pull_observations" /\ e = HTTPError
                           /\ pc' = "build_request_params"
                           /\ outerAttempt' = outerAttempt + 1]_vars

\* action_auth failed on a vendor error payload while a token was cached
C16_Witness ==
    /\ InAuth /\ pc = "done"
    /\ "error" \in DOMAIN calls[1].resp
    /\ Cached /\ session[integration].eid # None

C18_RetryUsesFreshToken ==
    [][/\ (pc = "build_request_params" /\ innerAttempt > 1) =>
             /\ DOMAIN session[integration] = {}
             /\ pc' = "post_search_items" =>
                   /\ calls' # <<>> /\ calls'[1].svc = "token/login"
                   /\ ~LoginFailure(calls'[1].resp)
                   /\ sid' = Issued(calls'[1].resp)
       /\ (pc = "post_search_items" /\ innerAttempt > 1) =>
             /\ calls # <<>> /\ calls[1].svc = "token/login"
             /\ calls'[1].svc = "core/search_items"
             /\ calls'[1].sid = Issued(calls[1].resp)]_vars

\* the second attempt of a call is about to send a freshly issued token
C18_Witness ==
    /\ pc = "post_search_items" /\ innerAttempt = 2
    /\ LoggedIn /\ "eid" \in DOMAIN calls[1].resp
    /\ sid = calls[1].resp.eid
    /\ callClears = 1

\* ------------------------------------------------- watermark and redelivery
\* the recorded-at times of device d in the batches a run saw delivered
DeliveredTimes(batches, d) ==
    UNION {{batches[n].observations[j].recorded_at :
                j \in {k \in DOMAIN batches[n].observations :
                          batches[n].observations[k].source = d}} :
           n \in {m \in DOMAIN batches : batches[m].outcome = "ok"}}
\* the time a stored watermark stands for
StoredTime(state) == ParseTimestamp(state.latest_device_timestamp)

\* C19: a stored watermark never decreases, neither from run to run nor
\* from one write of a run to the next, also when a batch holds several
\* records of one device; and when a run has ended after a confirmed
\* delivery the watermark of each delivered device is the greatest
\* recorded-at time delivered for it.
C19_WatermarkMonotonic ==
    [][/\ \A i \in Integrations : \A d \in Devices :
             DOMAIN watermark[i][d] # {} =>
                 /\ DOMAIN watermark'[i][d] # {}
                 /\ StoredTime(watermark'[i][d]) >= StoredTime(watermark[i][d])
       /\ (op' = "pull_observations" /\ pc' = "done") =>
             \A d \in Devices : \A t \in DeliveredTimes(sent', d) :
                 /\ DOMAIN watermark'[integration'][d] # {}
                 /\ StoredTime(watermark'[integration'][d]) >= t]_vars

\* C20: over sequential pull runs no observation, identified by device and
\* recorded-at time, is in the confirmed delivery of more than one run; a
\* run repeated on unchanged vendor data delivers nothing again.
C20_DeliveredAtMostOnce ==
    \A o \in DOMAIN delivered : delivered[o] <= 1

\* ---------------------------------------------------------- the cached token
\* C21: a session cache entry that exists holds a token that is not null,
\* and a position request whose sid was read from the cache never carries
\* a null sid: a login answer with neither error nor eid leaves no entry
\* that is used later.
C21_CachedTokenNotNull ==
    /\ \A i \in Integrations :
          DOMAIN session[i] # {} => session[i].eid # None
    /\ (pc = "post_search_items" /\ calls = <<>>) => sid # None

\* ------------------------------------------------ classifying the answer
\* C22: an answered position request is classified in one of three ways:
\* error code 1 as an invalid session, any other error code that is not 0
\* as a vendor error that is not retried, and everything else as success,
\* the item list (empty when missing) becoming the device records and the
\* session cache left as it was; a vendor error only for a code that is
\* not 0.
C22_ThreeWayClassification ==
    [][(/\ calls' # <<>>
        /\ calls'[1].svc = "core/search_items"
        /\ "http_error" \notin DOMAIN calls'[1].resp) =>
          LET resp == calls'[1].resp
              code == IF "error" \in DOMAIN resp THEN resp.error ELSE 0
          IN IF code = 1
             THEN /\ session'[integration] = EmptyDict
                  /\ \/ pc' = "build_request_params"
                     \/ gplOutcome' = WialonInvalidSessionException
             ELSE IF code # 0
             THEN /\ pc' = "done"
                  /\ gplOutcome' = WialonErrorException
                  /\ session' = session
             ELSE /\ gplOutcome' = "returned"
                  /\ vehicles' = IF "items" \in DOMAIN resp
                                 THEN resp.items ELSE <<>>
                  /\ session' = session]_vars

\* ----------------------------------------------------------- termination
\* a pull run that has not ended
Running == InPull /\ pc # "done"
\* the steps of a run
RunStep ==
    \/ BuildRequestParams
    \/ PostSearchItems
    \/ FilterAndTransformStep
    \/ SendObservations
    \/ SetState
\* what is left of a run: the stage it is in, then the fetch attempts, the
\* session attempts and the watermark writes still open in that stage
Remaining ==
    IF pc \in {"build_request_params", "post_search_items"}
    THEN 400 + 6 * (3 - outerAttempt) + 2 * (3 - innerAttempt)
             + (IF pc = "build_request_params" THEN 1 ELSE 0)
    ELSE IF pc = "filter_and_transform" THEN 300
    ELSE IF pc = "send_observations" THEN 200
    ELSE IF pc = "set_state" THEN 100 + Len(transformed_data) - w
    ELSE 0

\* C23: a pull run ends whatever the vendor and the delivery answer: a run
\* that has not ended can always take its next step, every step leaves
\* less of the run to do, an attempt begins only in the step that ended
\* the one before it with a failed call, and until it ends the run has
\* made at most 9 position requests, 9 login calls (16 of the two together)
\* and 1 delivery call; with credentials configured it ends by returning
\* its result.
C23_PullTerminates ==
    /\ [](InPull =>
            /\ Running => ENABLED RunStep
            /\ Remaining >= 0
            /\ Len(calls) <= 1
            /\ fetchRequests <= 9 /\ fetchLogins <= 9 /\ Len(sent) <= 1
            /\ fetchRequests + fetchLogins <= 16
            /\ pc = "post_search_items" => fetchRequests <= 8
            /\ (pc = "done" /\ hasAuthConfig) =>
                  /\ raised = "none"
                  /\ {"observations_extracted", "details"} \subseteq DOMAIN result)
    /\ [][Running =>
            /\ op' = op /\ integration' = integration
            /\ Remaining' < Remaining
            /\ (outerAttempt' # outerAttempt \/ innerAttempt' > innerAttempt) =>
                  /\ calls' # <<>>
                  /\ \/ /\ outerAttempt' = outerAttempt + 1
                        /\ "http_error" \in DOMAIN calls'[1].resp
                     \/ /\ innerAttempt' = innerAttempt + 1
                        /\ outerAttempt' = outerAttempt
                        /\ calls'[1].svc = "core/search_items"
                     \/ /\ outerAttempt' = 1 /\ innerAttempt' = 1
                        /\ gplOutcome' = "returned"]_vars

\* a run that used every attempt: 9 position requests and 7 logins
C23_Witness ==
    /\ InPull /\ pc = "done"
    /\ fetchRequests = 9 /\ fetchLogins = 7
    /\ outerAttempt = 3 /\ innerAttempt = 3

\* ------------------------------------------------------------- isolation
\* the store entries of every integration but i are left as they are
Untouched(i) ==
    \A k \in Integrations \ {i} :
        session'[k] = session[k] /\ watermark'[k] = watermark[k]

\* C24: a step of a handler run for one integration leaves the session
\* cache and every watermark of every other integration unchanged, and so
\* does a step that a run of another integration takes in between.
C24_OtherIntegrationsUntouched ==
    [][/\ Handlers => Untouched(integration')
       /\ \A j \in Integrations :
             OtherRunStep(j) => (Untouched(j) /\ integration' # j)]_vars

\* a run changed its own watermark while another integration has a cached
\* token and a watermark
C24_Witness ==
    /\ InPull /\ pc = "done"
    /\ watermark[integration] # wm0
    /\ \E k \in Integrations \ {integration} :
          /\ DOMAIN session[k] # {}
          /\ \E d \in Devices : DOMAIN watermark[k][d] # {}

====
